---- MODULE Spec2Model ----
(***************************************************************************)
(* The streaming parser of src/src/lib.rs: the nom grammar (comment,      *)
(* spacelike, name, node_name, node_body, node_parser, root) as operators *)
(* over sequences of characters, and ArseParser (fill, Iterator::next) as *)
(* a state machine over a reader that hands out its bytes in chunks.      *)
(*                                                                         *)
(* A character is a string; a text is a sequence of characters.  A byte   *)
(* of the reader is a string too: an ASCII byte is the character it       *)
(* encodes, "C3" is the lead byte and "A9" the continuation byte of the   *)
(* two-byte code point U+00E9.                                             *)
(***************************************************************************)
EXTENDS Integers, Sequences, FiniteSets, TLC

\* ------------------------------------------------------------------ bounds

\* Root elements concatenated into one input of Spec.
MaxPieces == 2
\* Root elements concatenated into one input of SpecWF.
MaxElems == 3
\* Calls of next() made after a call has returned None.
MaxPostCalls == 2
\* Characters of a text a grammar function is applied to in SpecText.
MaxText == 3

\* ------------------------------------------------------------ text helpers

Take(s, n) == SubSeq(s, 1, n)
Drop(s, n) == SubSeq(s, n + 1, Len(s))

\* str::find(predicate): the 1-based index of the first character of i
\* that lies in S, 0 when there is none.
FindToken(i, S) ==
    IF \E k \in 1..Len(i) : i[k] \in S
    THEN CHOOSE k \in 1..Len(i) : i[k] \in S /\ \A j \in 1..(k - 1) : i[j] \notin S
    ELSE 0

\* str::find(predicate) for the negated predicate of take_while.
FindNotToken(i, S) ==
    IF \E k \in 1..Len(i) : i[k] \notin S
    THEN CHOOSE k \in 1..Len(i) : i[k] \notin S /\ \A j \in 1..(k - 1) : i[j] \in S
    ELSE 0

\* FindSubstring: the 0-based offset of the first occurrence of t in i,
\* -1 when there is none.
FindSubstring(i, t) ==
    LET Occ == {k \in 0..(Len(i) - Len(t)) : SubSeq(i, k + 1, k + Len(t)) = t}
    IN  IF Occ = {} THEN -1 ELSE CHOOSE k \in Occ : \A j \in Occ : k <= j

\* --------------------------------------------------- nom (streaming) results

Ok(rest, out) == [kind |-> "Ok", rest |-> rest, out |-> out]
Incomplete == [kind |-> "Incomplete"]
Error == [kind |-> "Error"]

\* character::streaming::char
char(c, i) ==
    IF i = <<>> THEN Incomplete
    ELSE IF Head(i) = c THEN Ok(Tail(i), c)
    ELSE Error

\* bytes::streaming::is_not
is_not(arr, i) ==
    LET p == FindToken(i, arr)
    IN  IF p = 0 THEN Incomplete
        ELSE IF p = 1 THEN Error
        ELSE Ok(Drop(i, p - 1), Take(i, p - 1))

\* bytes::complete::take_while: the end of the input ends the match.
take_while_complete(cond, i) ==
    LET p == FindNotToken(i, cond)
    IN  IF p = 0 THEN Ok(<<>>, i)
        ELSE Ok(Drop(i, p - 1), Take(i, p - 1))

\* bytes::streaming::take_while
take_while(cond, i) ==
    LET p == FindNotToken(i, cond)
    IN  IF p = 0 THEN Incomplete
        ELSE Ok(Drop(i, p - 1), Take(i, p - 1))

\* bytes::streaming::tag
tag(t, i) ==
    LET n == IF Len(i) < Len(t) THEN Len(i) ELSE Len(t)
    IN  IF Take(i, n) # Take(t, n) THEN Error
        ELSE IF Len(i) < Len(t) THEN Incomplete
        ELSE Ok(Drop(i, Len(t)), t)

\* bytes::complete::take_until: a pattern that is not in the input is an
\* error.
take_until_complete(t, i) ==
    LET k == FindSubstring(i, t)
    IN  IF k = -1 THEN Error
        ELSE Ok(Drop(i, k), Take(i, k))

\* bytes::streaming::take_until
take_until(t, i) ==
    LET k == FindSubstring(i, t)
    IN  IF k = -1 THEN Incomplete
        ELSE Ok(Drop(i, k), Take(i, k))

\* sequence::delimited: r1, r2, r3 are the results of the three parsers,
\* each run on the rest of the one before; the first that is not Ok is the
\* result, and r2's output is kept.
delimited(r1, r2, r3) ==
    IF r1.kind # "Ok" THEN r1
    ELSE IF r2.kind # "Ok" THEN r2
    ELSE IF r3.kind # "Ok" THEN r3
    ELSE Ok(r3.rest, r2.out)

\* sequence::preceded: r1's output is dropped.
preceded(r1, r2) == IF r1.kind # "Ok" THEN r1 ELSE r2

\* sequence::pair
pair(r1, r2) ==
    IF r1.kind # "Ok" THEN r1
    ELSE IF r2.kind # "Ok" THEN r2
    ELSE Ok(r2.rest, <<r1.out, r2.out>>)

\* branch::alt over two alternatives, both run on the same input: the
\* second is tried only when the first ends in Err::Error, so Incomplete
\* of the first is the result.
alt(r1, r2) == IF r1.kind # "Error" THEN r1 ELSE r2

\* ----------------------------------------------------------------- grammar

comment(i) ==
    LET r1 == char("#", i)
        r2 == is_not({"\n"}, r1.rest)
        r3 == char("\n", r2.rest)
    IN  delimited(r1, r2, r3)

SPACELIKE_CHARS == {" ", "\t", "\r", "\n"}

spacelike(i) == take_while(SPACELIKE_CHARS, i)

\* name with the parentheses left out of its excluded characters.
name_with_parens(i) == is_not({" ", "\t", "\r", "\n", "{", "}", "[", "]"}, i)

name(i) == is_not({" ", "\t", "\r", "\n", "{", "}", "[", "]", "(", ")"}, i)

node_name(i) ==
    LET r1 == tag(<<"n", "a", "m", "e", " ">>, i)
        r2 == name(r1.rest)
        r3 == spacelike(r2.rest)
    IN  delimited(r1, r2, r3)

\* the inner delimited of node_body
node_fields(i) ==
    LET r1 == take_until(<<"n", "a", "m", "e", " ">>, i)
        r2 == node_name(r1.rest)
        r3 == take_until(<<"}">>, r2.rest)
    IN  delimited(r1, r2, r3)

\* node_body that is done once the name is read: it neither skips to the
\* closing brace nor requires it.
node_body_unclosed(i) ==
    LET r1 == char("{", i)
        r2 == take_until(<<"n", "a", "m", "e", " ">>, r1.rest)
        r3 == tag(<<"n", "a", "m", "e", " ">>, r2.rest)
        r4 == name(r3.rest)
    IN  preceded(r1, preceded(r2, preceded(r3, r4)))

node_body(i) ==
    LET r1 == char("{", i)
        r2 == node_fields(r1.rest)
        r3 == char("}", r2.rest)
    IN  delimited(r1, r2, r3)

node_parser(i) ==
    LET s1 == spacelike(i)
        r1 == preceded(s1, name(s1.rest))
        s2 == spacelike(r1.rest)
        r2 == preceded(s2, node_body(s2.rest))
    IN  pair(r1, r2)

Node(node_type, nm) == [node_type |-> node_type, name |-> nm]

\* combinator::map of comment into RootElement::Comment
root_comment(i) ==
    LET r == comment(i)
    IN  IF r.kind # "Ok" THEN r
        ELSE Ok(r.rest, [tag |-> "Comment", text |-> r.out])

\* combinator::map of node_parser into RootElement::Node
root_node(i) ==
    LET r == node_parser(i)
    IN  IF r.kind # "Ok" THEN r
        ELSE Ok(r.rest, [tag |-> "Node", node |-> Node(r.out[1], r.out[2])])

root(i) == alt(root_comment(i), root_node(i))

\* ---------------------------------------------------------------- decoding

\* The bytes of the two-byte code point U+00E9; every other byte is ASCII.
LeadBytes == {"C3"}
ContBytes == {"A9"}

\* std::str::from_utf8, validity: a lead byte is followed by a continuation
\* byte inside the same slice, and a continuation byte follows a lead byte.
Utf8Valid(b) ==
    \A k \in 1..Len(b) :
        /\ b[k] \in LeadBytes => (k < Len(b) /\ b[k + 1] \in ContBytes)
        /\ b[k] \in ContBytes => (k > 1 /\ b[k - 1] \in LeadBytes)

\* std::str::from_utf8, the text of a valid slice: one character per code
\* point.
RECURSIVE Utf8Chars(_)
Utf8Chars(b) ==
    IF b = <<>> THEN <<>>
    ELSE IF Head(b) \in LeadBytes THEN <<"U+00E9">> \o Utf8Chars(Drop(b, 2))
    ELSE <<Head(b)>> \o Utf8Chars(Tail(b))

\* std::str::from_utf8_unchecked: the slice is taken for text as it is.
from_utf8_unchecked(b) == [ok |-> TRUE, data |-> Utf8Chars(b)]

from_utf8(b) ==
    IF Utf8Valid(b) THEN [ok |-> TRUE, data |-> Utf8Chars(b)]
    ELSE [ok |-> FALSE]

\* ------------------------------------------------------------------ inputs
\* An input is a concatenation of root elements.  Each element carries its
\* bytes and, for a well-formed record, the record a reader of the format
\* expects from it.

Element(bytes, nodes) == [bytes |-> bytes, nodes |-> nodes]

ElComment == Element(<<"#", "c", "\n">>, <<>>)
ElEmptyComment == Element(<<"#", "\n">>, <<>>)
ElBlank == Element(<<"\n">>, <<>>)
ElNodeA ==
    Element(<<"a", "{", "n", "a", "m", "e", " ", "b", "}">>,
            <<Node(<<"a">>, <<"b">>)>>)
ElNodeD ==
    Element(<<"d", " ", "{", "n", "a", "m", "e", " ", "e", "\n", "}", "\n">>,
            <<Node(<<"d">>, <<"e">>)>>)
\* a record whose closing brace is missing
ElOpenNode == Element(<<"f", "{", "n", "a", "m", "e", " ", "g", "\n">>, <<>>)
\* a record whose name field holds no identifier, and is never closed
ElBadName == Element(<<"q", "{", "n", "a", "m", "e", " ", "(">>, <<>>)
\* text no root element starts with
ElParen == Element(<<")">>, <<>>)
\* a record without a name field
ElNoName == Element(<<"h", "{", "}", "\n">>, <<>>)
\* a record with a field zname before and a field y after its name field
ElExtra ==
    Element(<<"k", "{", "z", "n", "a", "m", "e", " ", "c", " ",
              "n", "a", "m", "e", " ", "b", " ", "y", "}">>,
            <<Node(<<"k">>, <<"b">>)>>)
\* a comment holding the two-byte code point
ElUtf8Comment == Element(<<"#", "C3", "A9", "\n">>, <<>>)
\* a continuation byte on its own: not valid UTF-8 in any chunking
ElBadByte == Element(<<"A9">>, <<>>)

\* Comments with text, blank lines and records with a name field only.
WellFormed == {ElComment, ElBlank, ElNodeA, ElNodeD}

Elements ==
    WellFormed \cup {ElEmptyComment, ElOpenNode, ElBadName, ElParen, ElNoName,
                     ElExtra, ElUtf8Comment, ElBadByte}

\* The document of tests::nodes, with the comment "# hi".
ElHi == Element(<<"#", " ", "h", "i", "\n">>, <<>>)
ElSphere ==
    Element(<<"s", "p", "h", "e", "r", "e", "\n", "{", "\n",
              " ", " ", " ", " ", "n", "a", "m", "e", " ",
              "S", "p", "h", "e", "r", "e", "0", "2", "\n", "}", "\n">>,
            <<Node(<<"s", "p", "h", "e", "r", "e">>,
                   <<"S", "p", "h", "e", "r", "e", "0", "2">>)>>)
ElBox ==
    Element(<<"b", "o", "x", " ", "{", "\n",
              " ", " ", " ", " ", "n", "a", "m", "e", " ",
              "B", "o", "x", "0", "2", "\n", "}", "\n">>,
            <<Node(<<"b", "o", "x">>, <<"B", "o", "x", "0", "2">>)>>)
TestDoc == <<ElHi, ElBlank, ElSphere, ElBox>>

\* The sequences of at most n elements of S.
Docs(S, n) == UNION {[1..k -> S] : k \in 0..n}

RECURSIVE Bytes(_)
Bytes(d) == IF d = <<>> THEN <<>> ELSE Head(d).bytes \o Bytes(Tail(d))

\* The ordered list of the records of a document.
RECURSIVE Records(_)
Records(d) == IF d = <<>> THEN <<>> ELSE Head(d).nodes \o Records(Tail(d))

\* ------------------------------------------------------------------- state

VARIABLES
    doc,        \* the elements the input was built from (never changes)
    reader,     \* BufReader<R>: the bytes the reader has not handed out yet
    buffer,     \* ArseParser::buffer: decoded text not yet recognized
    pc,         \* "idle": outside next(); "fill", "match": inside its loop;
                \* "panicked": an unwrap() has panicked
    read,       \* the local `read` of next(): the result of the last fill()
    ret,        \* what the last call of next() returned
    yielded,    \* the records returned so far, in order
    consumed,   \* the text successful recognitions have removed from buffer
    ended,      \* a call of next() has returned None
    postCalls,  \* calls of next() begun after that
    result      \* SpecText: the result of spacelike applied to buffer

vars ==
    <<doc, reader, buffer, pc, read, ret, yielded, consumed, ended, postCalls,
      result>>

\* What a call of next() came to: Option<Node>, or a panic.
NotCalled == [is |-> "not called"]
Pending == [is |-> "pending"]
None == [is |-> "None"]
Some(n) == [is |-> "Some", node |-> n]
Panicked(e) == [is |-> "panic", error |-> e]

\* No grammar function has been applied on its own.
NotApplied == [kind |-> "not applied"]

\* ArseParser::new on a reader holding the bytes of d.
New(d) ==
    /\ doc = d
    /\ reader = Bytes(d)
    /\ buffer = <<>>
    /\ pc = "idle"
    /\ read = 0
    /\ ret = NotCalled
    /\ yielded = <<>>
    /\ consumed = <<>>
    /\ ended = FALSE
    /\ postCalls = 0
    /\ result = NotApplied

Init == \E d \in Docs(Elements, MaxPieces) : New(d)

\* The caller calls next().
NextCall ==
    /\ pc = "idle"
    /\ ended => postCalls < MaxPostCalls
    /\ pc' = "fill"
    /\ ret' = Pending
    /\ postCalls' = IF ended THEN postCalls + 1 ELSE postCalls
    /\ UNCHANGED <<doc, reader, buffer, read, yielded, consumed, ended, result>>

\* next() returns v.
Return(v) ==
    /\ pc' = "idle"
    /\ ret' = v
    /\ yielded' = IF v.is = "Some" THEN Append(yielded, v.node) ELSE yielded
    /\ ended' = (ended \/ v.is = "None")

\* An unwrap() of next() or fill() panics.
Panic(why) ==
    /\ pc' = "panicked"
    /\ ret' = Panicked(why)
    /\ UNCHANGED <<yielded, ended>>

\* String::push_str with the text replacing the buffer.
push_str_replacing(buf, data) == data

\* String::push_str with the text put in front of the buffer.
push_str_prepending(buf, data) == data \o buf

\* String::push_str
push_str(buf, data) == buf \o data

\* The head of the loop: `let read = self.fill().unwrap()`, then the
\* is_empty test.  fill_buf() hands out a chunk of nb bytes, nb = 0 only at
\* the end of the reader, or fails.
Fill ==
    /\ pc = "fill"
    /\ UNCHANGED result
    /\ \/ /\ Panic("io::Error")
          /\ UNCHANGED <<doc, reader, buffer, read, consumed, postCalls>>
       \/ \E nb \in 0..Len(reader) :
            /\ nb = 0 <=> reader = <<>>
            /\ LET data == from_utf8(Take(reader, nb))
               IN  IF nb > 0 /\ ~data.ok
                   THEN /\ Panic("Utf8Error")
                        /\ UNCHANGED <<doc, reader, buffer, read, consumed, postCalls>>
                   ELSE /\ buffer' = IF nb > 0 THEN push_str(buffer, data.data) ELSE buffer
                        /\ reader' = Drop(reader, nb)
                        /\ read' = nb
                        /\ IF buffer' = <<>>
                           THEN Return(None)
                           ELSE /\ pc' = "match"
                                /\ UNCHANGED <<ret, yielded, ended>>
                        /\ UNCHANGED <<doc, consumed, postCalls>>

\* Recognize with a syntax error that throws the buffered text away
\* before it ends the sequence.
RecognizeDiscarding ==
    /\ pc = "match"
    /\ LET r == root(buffer)
       IN  IF r.kind = "Ok"
           THEN /\ buffer' = r.rest
                /\ consumed' = consumed \o Take(buffer, Len(buffer) - Len(r.rest))
                /\ IF r.out.tag = "Node"
                   THEN Return(Some(r.out.node))
                   ELSE /\ pc' = "fill"
                        /\ UNCHANGED <<ret, yielded, ended>>
           ELSE /\ IF r.kind = "Incomplete" /\ read # 0
                   THEN /\ pc' = "fill"
                        /\ UNCHANGED <<ret, yielded, ended>>
                   ELSE Return(None)
                /\ buffer' = IF r.kind = "Error" THEN <<>> ELSE buffer
                /\ UNCHANGED consumed
    /\ UNCHANGED <<doc, reader, read, postCalls, result>>

\* Recognize without the test `read == 0`: Incomplete always goes back to
\* the head of the loop.
RecognizeRetrying ==
    /\ pc = "match"
    /\ LET r == root(buffer)
       IN  IF r.kind = "Ok"
           THEN /\ buffer' = r.rest
                /\ consumed' = consumed \o Take(buffer, Len(buffer) - Len(r.rest))
                /\ IF r.out.tag = "Node"
                   THEN Return(Some(r.out.node))
                   ELSE /\ pc' = "fill"
                        /\ UNCHANGED <<ret, yielded, ended>>
           ELSE /\ IF r.kind = "Incomplete"
                   THEN /\ pc' = "fill"
                        /\ UNCHANGED <<ret, yielded, ended>>
                   ELSE Return(None)
                /\ UNCHANGED <<buffer, consumed>>
    /\ UNCHANGED <<doc, reader, read, postCalls, result>>

\* The match on root(self.buffer.clone().as_str()).
Recognize ==
    /\ pc = "match"
    /\ LET r == root(buffer)
       IN  IF r.kind = "Ok"
           THEN /\ buffer' = r.rest
                /\ consumed' = consumed \o Take(buffer, Len(buffer) - Len(r.rest))
                /\ IF r.out.tag = "Node"
                   THEN Return(Some(r.out.node))
                   ELSE /\ pc' = "fill"
                        /\ UNCHANGED <<ret, yielded, ended>>
           ELSE /\ IF r.kind = "Incomplete" /\ read # 0
                   THEN /\ pc' = "fill"
                        /\ UNCHANGED <<ret, yielded, ended>>
                   ELSE Return(None)
                /\ UNCHANGED <<buffer, consumed>>
    /\ UNCHANGED <<doc, reader, read, postCalls, result>>

Next == NextCall \/ Fill \/ Recognize

Spec == Init /\ [][Next]_vars

\* The thread is inside the loop of next().
Running == pc \in {"fill", "match"}

\* A step of the thread inside the loop: the program counter moves.  Inside
\* the loop the steps of Next are those of Fill and of Recognize, one of them
\* is enabled and each moves the program counter.
LoopStep == Running /\ pc' \in {"fill", "match", "idle", "panicked"}

\* A call of next() that has begun runs on: the thread executes fill and
\* the match one after the other.  Nothing makes the caller call again.
\* The inputs come from the well-formed elements, the record that is never
\* closed (Incomplete at the end of the reader), the text no element starts
\* with (Err::Error) and the comment whose bytes a chunk may split.
LiveElements == WellFormed \cup {ElOpenNode, ElParen, ElUtf8Comment}

InitLive == \E d \in Docs(LiveElements, MaxPieces) : New(d)

SpecLive == InitLive /\ [][Next]_vars /\ WF_pc(LoopStep)

\* Inputs of well-formed elements, with or without a trailing record whose
\* closing brace is missing.
InitWF ==
    \E d \in Docs(WellFormed, MaxElems) :
        \E t \in {<<>>, <<ElOpenNode>>} : New(d \o t)

SpecWF == InitWF /\ [][Next]_vars

\* The document of tests::nodes.
InitTest == New(TestDoc)

SpecTest == InitTest /\ [][Next]_vars

\* The grammar on its own: spacelike applied to a text of at most MaxText
\* characters, whitespace and others.
TextChars == SPACELIKE_CHARS \cup {"a"}

Texts(n) == UNION {[1..k -> TextChars] : k \in 0..n}

\* The state of New on an empty reader, but for the buffer holding a text.
InitText ==
    /\ doc = <<>>
    /\ reader = <<>>
    /\ buffer \in Texts(MaxText)
    /\ pc = "idle"
    /\ read = 0
    /\ ret = NotCalled
    /\ yielded = <<>>
    /\ consumed = <<>>
    /\ ended = FALSE
    /\ postCalls = 0
    /\ result = NotApplied

ApplySpacelike ==
    /\ result = NotApplied
    /\ result' = spacelike(buffer)
    /\ UNCHANGED <<doc, reader, buffer, pc, read, ret, yielded, consumed, ended,
                   postCalls>>

NextText == ApplySpacelike

SpecText == InitText /\ [][NextText]_vars

\* ------------------------------------------------------------------ claims

IsPrefix(s, t) == Len(s) <= Len(t) /\ s = Take(t, Len(s))

\* A call of next() has returned None and no call is running.
Finished == pc = "idle" /\ ended

Range(s) == {s[k] : k \in 1..Len(s)}

\* C1: for an input of well-formed records and comments in any
\* interleaving, the records returned until next() returns None are the
\* records of the input, in order, the comments elided.
C1_RecordsInOrder ==
    (Range(doc) \subseteq WellFormed /\ Finished) => yielded = Records(doc)

\* The records of a run that gets the whole input as one chunk: the loop of
\* next() with the first fill() handing out everything and every later one
\* returning 0.
RECURSIVE Drain(_)
Drain(text) ==
    IF text = <<>> THEN <<>>
    ELSE LET r == root(text)
         IN  IF r.kind # "Ok" THEN <<>>
             ELSE IF r.out.tag = "Node" THEN <<r.out.node>> \o Drain(r.rest)
             ELSE Drain(r.rest)

SingleChunk(d) == Drain(from_utf8(Bytes(d)).data)

ValidElements == WellFormed \cup {ElUtf8Comment}

\* C2: for a valid document, whatever the chunks the reader hands it out
\* in, the records produced are those produced when it arrives as a single
\* chunk.
C2_ChunkingInvariance ==
    (/\ Range(doc) \subseteq ValidElements
     /\ Finished \/ ret = Panicked("Utf8Error"))
        => yielded = SingleChunk(doc)

TestRecords == Records(TestDoc)

\* C3: on the document of tests::nodes, whole or split at any byte offset,
\* next() returns (sphere, Sphere02), then (box, Box02), then None.
C3_TestDocument ==
    doc = TestDoc =>
        /\ IsPrefix(yielded, TestRecords)
        /\ ended => yielded = TestRecords

C3_Witness ==
    /\ doc = TestDoc
    /\ Finished
    /\ ret = None
    /\ reader = <<>>
    /\ yielded = <<Node(<<"s", "p", "h", "e", "r", "e">>,
                        <<"S", "p", "h", "e", "r", "e", "0", "2">>),
                   Node(<<"b", "o", "x">>, <<"B", "o", "x", "0", "2">>)>>

\* C4: once a call of next() has returned None, no later call returns a
\* record: every later call that returns, returns None.
C4_EndIsPermanent ==
    [][ended => (yielded' = yielded /\ (pc' = "idle" => ret' = None))]_vars

\* A call made after the sequence ended on a syntax error has read the
\* record that follows the error and has returned None.
C4_Witness ==
    /\ doc = <<ElParen, ElNodeD>>
    /\ Finished
    /\ postCalls >= 1
    /\ read > 0
    /\ reader = <<>>
    /\ ret = None
    /\ yielded = <<>>

IsSpacelike(text) == \A k \in 1..Len(text) : text[k] \in SPACELIKE_CHARS

\* text is the record without its closing brace, after optional whitespace.
IsOpenNode(text) ==
    \E k \in 0..Len(text) :
        IsSpacelike(Take(text, k)) /\ Drop(text, k) = ElOpenNode.bytes

EndsOpen(d) == d # <<>> /\ d[Len(d)] = ElOpenNode

\* C5: when the input ends in a record whose closing brace is missing,
\* nothing is ever yielded for it, and once all that is left of the input
\* is that record, each record before it has been yielded exactly once.
C5_NoPartialRecord ==
    EndsOpen(doc) =>
        /\ IsPrefix(yielded, Records(doc))
        /\ IsOpenNode(buffer \o reader) => yielded = Records(doc)

C5_Witness ==
    /\ doc = <<ElComment, ElNodeD, ElNodeA, ElOpenNode>>
    /\ Finished
    /\ ret = None
    /\ reader = <<>>
    /\ buffer = ElOpenNode.bytes
    /\ yielded = <<Node(<<"d">>, <<"e">>), Node(<<"a">>, <<"b">>)>>

\* C6: a decode error or a read error ends the sequence like a syntax
\* error: the call returns None and nothing aborts.
C6_ErrorsEndQuietly == pc # "panicked"

NameExcluded == {" ", "\t", "\r", "\n", "{", "}", "[", "]", "(", ")"}

IsIdentifier(text) == text # <<>> /\ \A k \in 1..Len(text) : text[k] \notin NameExcluded

\* C7: both fields of every yielded record are non-empty and hold no
\* whitespace and none of { } [ ] ( ).
C7_FieldsAreIdentifiers ==
    \A k \in 1..Len(yielded) :
        IsIdentifier(yielded[k].node_type) /\ IsIdentifier(yielded[k].name)

C7_Witness ==
    /\ Len(yielded) = 2
    /\ yielded[1] = Node(<<"a">>, <<"b">>)
    /\ yielded[2] = Node(<<"k">>, <<"c">>)

\* text starts with a line that begins with '#': at its start, or after
\* whitespace that ends a line.
StartsHashLine(text) ==
    \E k \in 1..Len(text) :
        /\ text[k] = "#"
        /\ IsSpacelike(Take(text, k - 1))
        /\ k > 1 => text[k - 1] = "\n"

\* C8: root applied to text whose line starts with '#' ends in a Comment
\* or in Incomplete.
C8_HashLineIsComment ==
    (pc = "match" /\ StartsHashLine(buffer)) =>
        LET r == root(buffer)
        IN  \/ r.kind = "Incomplete"
            \/ r.kind = "Ok" /\ r.out.tag = "Comment"

IsNodeElement(e) == e.nodes # <<>>

\* Every comment of d is directly followed by a comment or by a record.
CommentsFollowed(d) ==
    \A k \in 1..Len(d) :
        d[k] = ElComment =>
            k < Len(d) /\ (d[k + 1] = ElComment \/ IsNodeElement(d[k + 1]))

\* C9: when every comment line is directly followed by another comment or
\* by a record, nothing is yielded for the comments and the records that
\* follow are yielded unchanged.
C9_CommentsSkipped ==
    (/\ Range(doc) \subseteq WellFormed
     /\ ElComment \in Range(doc)
     /\ CommentsFollowed(doc)
     /\ Finished)
        => yielded = Records(doc)

\* C10: the name yielded for a record with other text around its name
\* field is the value of its name field.
C10_NameOfNameField ==
    \A k \in 1..Len(yielded) :
        yielded[k].node_type = <<"k">> => yielded[k].name = <<"b">>

\* C11: bytes are taken from the reader only when recognition of the
\* current buffer reports Incomplete; in particular a buffer that begins
\* with a complete record is never added to before the record is yielded.
C11_ReadOnlyOnNeedMore ==
    [][reader' # reader => root(buffer).kind = "Incomplete"]_vars

\* C12: a record whose body closes without a name field (the only record
\* of type h in the inputs) never yields a record, whatever follows it.
C12_NoNameNoRecord ==
    \A k \in 1..Len(yielded) : yielded[k].node_type # <<"h">>

\* The length of the maximal prefix of text made of spacelike characters.
SpacePrefix(text) ==
    CHOOSE n \in 0..Len(text) :
        /\ IsSpacelike(Take(text, n))
        /\ n < Len(text) => text[n + 1] \notin SPACELIKE_CHARS

\* C13 as stated: spacelike succeeds on every input, the empty and the
\* all-whitespace ones included, with the maximal whitespace prefix as its
\* output and the rest as its remainder.
C13_SpacelikeAlwaysSucceeds ==
    result # NotApplied =>
        result = Ok(Drop(buffer, SpacePrefix(buffer)),
                    Take(buffer, SpacePrefix(buffer)))

\* C13, amended: spacelike never ends in Err::Error; on an input that holds
\* a character that is not spacelike it succeeds with the maximal whitespace
\* prefix (which may be empty) and the rest; on the empty input and on an
\* input of spacelike characters only it reports Incomplete.
C13_SpacelikeStreaming ==
    result # NotApplied =>
        IF IsSpacelike(buffer)
        THEN result = Incomplete
        ELSE result = Ok(Drop(buffer, SpacePrefix(buffer)),
                         Take(buffer, SpacePrefix(buffer)))

C13_Witness ==
    /\ buffer = <<" ", "\t", "\n">>
    /\ result = Incomplete

\* C14: the buffer changes in two ways only.  A step of recognition leaves
\* it as the remainder of root when root succeeds (on a record or on a
\* comment) and unchanged when root ends in Incomplete or Error; a refill
\* leaves it as the old content followed by the decoded text of the bytes
\* taken from the reader; no other step changes it.
C14_BufferChanges ==
    [][/\ pc = "match" =>
            buffer' = IF root(buffer).kind = "Ok" THEN root(buffer).rest
                      ELSE buffer
       /\ pc = "fill" =>
            buffer' = buffer \o Utf8Chars(Take(reader, Len(reader) - Len(reader')))
       /\ pc \notin {"match", "fill"} => buffer' = buffer]_vars

\* The comment has been recognized with "a" as the remainder, and a refill
\* has put the rest of the record behind it.
C14_Witness ==
    /\ doc = <<ElComment, ElNodeA>>
    /\ pc = "match"
    /\ consumed = ElComment.bytes
    /\ read = Len(ElNodeA.bytes) - 1
    /\ buffer = ElNodeA.bytes

\* str::as_bytes: the bytes that encode a text.
RECURSIVE Utf8Bytes(_)
Utf8Bytes(text) ==
    IF text = <<>> THEN <<>>
    ELSE (IF Head(text) = "U+00E9" THEN <<"C3", "A9">> ELSE <<Head(text)>>)
             \o Utf8Bytes(Tail(text))

\* C15: in every reachable state the text consumed by successful
\* recognitions, then the buffer, then the bytes the reader has not handed
\* out, are the original input: no byte is dropped, duplicated or reordered.
C15_Conservation ==
    Utf8Bytes(consumed \o buffer) \o reader = Bytes(doc)

\* The comment with the two-byte code point has been consumed, the start
\* of the record is in the buffer and its end still in the reader.
C15_Witness ==
    /\ doc = <<ElUtf8Comment, ElNodeA>>
    /\ consumed = <<"#", "U+00E9", "\n">>
    /\ buffer = <<"a", "{">>
    /\ reader = <<"n", "a", "m", "e", " ", "b", "}">>

\* C16: every call of next() comes to an end: from inside the loop the
\* call returns (or an unwrap() panics).
C16_NextTerminates == Running ~> pc \in {"idle", "panicked"}

\* A call that went around the loop for the comment and then for every
\* chunk of the record, the last of one byte, has returned the record.
C16_Witness ==
    /\ doc = <<ElComment, ElNodeA>>
    /\ pc = "idle"
    /\ ret = Some(Node(<<"a">>, <<"b">>))
    /\ consumed = Bytes(doc)
    /\ read = 1

\* The text of the elements k..Len(d) of d.
TextFrom(d, k) == Utf8Chars(Bytes(SubSeq(d, k, Len(d))))

\* Element k of d is the record that is well formed but for its closing
\* brace, and no closing brace appears in the rest of d.
NeverClosed(d, k) ==
    /\ d[k] = ElOpenNode
    /\ \A j \in (k + 1)..Len(d) : "}" \notin Range(d[j].bytes)

\* Recognition has come to element k of d: all that comes before it has
\* been consumed, but for whitespace at its end.
ReachedElement(d, k) ==
    LET before == Utf8Chars(Bytes(SubSeq(d, 1, k - 1)))
    IN  /\ IsPrefix(consumed, before)
        /\ IsSpacelike(Drop(before, Len(consumed)))

\* C17: when recognition has come to a record whose closing brace never
\* appears and next() has returned None, the reader is exhausted and the
\* buffer holds the whole text from the record (and the whitespace before
\* it) to the end of the input.
C17_ReadsToTheEnd ==
    \A k \in 1..Len(doc) :
        (NeverClosed(doc, k) /\ ReachedElement(doc, k) /\ Finished) =>
            /\ reader = <<>>
            /\ \E n \in 0..Len(buffer) :
                    /\ IsSpacelike(Take(buffer, n))
                    /\ Drop(buffer, n) = TextFrom(doc, k)

\* After the comment, the call has come to the open record and has
\* returned None with the record and all that follows it in the buffer.
C17_Witness ==
    /\ doc = <<ElComment, ElOpenNode>>
    /\ Finished
    /\ postCalls = 0
    /\ ret = None
    /\ read = 0
    /\ reader = <<>>
    /\ consumed = ElComment.bytes
    /\ buffer = ElOpenNode.bytes

====
